---- MODULE Spec2Model ----
(***************************************************************************)
(* A model of the AST engine of rzvxa/ast-cell-test: the tree built by the *)
(* example parser (parser.rs), the recursive-descent traversal and its     *)
(* token-gated borrows (traverse.rs, context.rs, cell.rs), the worked      *)
(* transform TransformTypeof (main.rs) and the printer (print.rs).         *)
(*                                                                         *)
(* Handles are the positions 1..Len(nodes) of the arena, in allocation     *)
(* order. An Expression / Statement value is a tagged handle               *)
(* [variant, id]; a parent slot tag is [slot, node], as parser.rs writes   *)
(* it. TransformTypeof (main.rs) uses `node.parent` as the handle of the   *)
(* parent node: that is the node component of the tag. Its get_node and    *)
(* get_node_mut calls go through the traversal context, the one way a hook *)
(* of traverse.rs reaches a node.                                          *)
(*                                                                         *)
(* A traversal is a call stack of frames [fn, arg, pc, right]; each step   *)
(* of the innermost frame is one transition, so the states between the     *)
(* edits and the visits are visible.                                       *)
(*                                                                         *)
(* Five specifications: Spec, a caller that parses one source and then     *)
(* prints and transforms the tree; AccessSpec, a caller that looks nodes   *)
(* up in the arena and narrows them (main.rs Nodes, ast.rs AstRef, in both *)
(* builds of AstRef); ConcSpec, two threads that each transform a tree of  *)
(* their own, interleaved step by step; TraverseSpec, the transform calls  *)
(* of Spec under weak fairness of the running thread; ParserSpec, the      *)
(* parser run one allocation and one tag write at a time.                  *)
(***************************************************************************)
EXTENDS Integers, Sequences, FiniteSets, TLC

VARIABLES
    src,          \* the source expression handed to the parser (never changes)
    nodes,        \* the arena: every node of the tree, by handle
    root,         \* the Statement the caller holds (`stmt` in test / transform)
    stack,        \* call stack of the running traversal, innermost frame last
    borrows,      \* live borrows taken through the TraverseCtx
    tokens,       \* number of access tokens the running thread has made and not dropped
    transformer,  \* the visitor the running traversal was started with
    runs,         \* completed transform calls: [transformer, nodes (the tree after it)]
    counts,       \* the counting visitor's per-kind counters
    log,          \* hook invocations of the running / last traversal, in order
    output,       \* the texts Printer::print returned, with the number of runs before each
    access,       \* the last node access a caller made outside a traversal, with its outcome
    thread,       \* the thread whose call stack `stack` is
    parked        \* the other thread's locals while it is not scheduled

vars == <<src, nodes, root, stack, borrows, tokens, transformer, runs, counts,
          log, output, access, thread, parked>>

-----------------------------------------------------------------------------
(* Bounds of the model *)

\* number of transform calls made on one tree
MaxRuns == 2

-----------------------------------------------------------------------------
(* Operators and variants: ast.rs *)

BinaryOperator == {"Equality", "StrictEquality"}

UnaryOperator ==
    {"UnaryNegation", "UnaryPlus", "LogicalNot", "BitwiseNot", "Typeof", "Void", "Delete"}

ExpressionVariants == {"StringLiteral", "Identifier", "BinaryExpression", "UnaryExpression"}

\* Expression::<variant>(handle), Statement::ExpressionStatement(handle)
Expression(variant, id) == [variant |-> variant, id |-> id]

Statement(id) == [variant |-> "ExpressionStatement", id |-> id]

\* ExpressionParent / StatementParent: which field of which node holds the child
ExpressionParent(slot, node) == [slot |-> slot, node |-> node]

ParentNone == [slot |-> "None", node |-> 0]

-----------------------------------------------------------------------------
(* Source expressions given to the parser *)

Id(name) == [k |-> "Identifier", name |-> name]

Str(value) == [k |-> "StringLiteral", value |-> value]

Un(op, arg) == [k |-> "UnaryExpression", op |-> op, arg |-> arg]

Bin(op, l, r) == [k |-> "BinaryExpression", op |-> op, l |-> l, r |-> r]

\* `typeof foo`
TypeofFoo == Un("Typeof", Id("foo"))

\* `typeof foo OP 'object'` (scenarios 1 and 2)
Scenario(op) == Bin(op, TypeofFoo, Str("object"))

\* `typeof foo === bar` (scenario 3)
Scenario3 == Bin("StrictEquality", TypeofFoo, Id("bar"))

\* `'object' OP typeof foo`
Mirrored(op) == Bin(op, Str("object"), TypeofFoo)

Operands == {Str("object"), Id("bar")}

Sources ==
    {Bin(op, Un(u, Id("foo")), r) : op \in BinaryOperator, u \in UnaryOperator, r \in Operands}
    \cup {Bin(op, r, Un(u, Id("foo"))) : op \in BinaryOperator, u \in UnaryOperator, r \in Operands}
    \cup {Un("LogicalNot", Bin("StrictEquality", Un("Typeof", Id("x")), Str("a"))),
          Bin("Equality", Scenario("StrictEquality"), Str("s")),
          Bin("Equality", Scenario("StrictEquality"), Un("LogicalNot", Id("bar"))),
          Bin("Equality", Un("Typeof", Id("a")), Un("Typeof", Id("b"))),
          Bin("StrictEquality", Str("a"), Id("b")),
          Un("Typeof", TypeofFoo),
          TypeofFoo, Id("foo"), Str("object")}

-----------------------------------------------------------------------------
(* The parser: parser.rs *)

\* alloc.alloc(node): the arena grows by one node; its handle is the new length
alloc(ns, node) == Append(ns, node)

\* a patch step that leaves the child's tag as it was allocated
leave_parent(ns, expr, tag) == ns

\* `child.parent = tag` on the node an Expression refers to
set_parent(ns, expr, tag) == [ns EXCEPT ![expr.id].parent = tag]

RECURSIVE parse_expression(_, _)
\* Children are allocated first, with parent None; once the parent node
\* exists each child's parent tag is patched to the slot that holds it.
parse_expression(e, ns) ==
    IF e.k = "Identifier" THEN
        LET ns1 == alloc(ns, [kind |-> "IdentifierReference", name |-> e.name,
                              parent |-> ParentNone])
        IN [nodes |-> ns1, expr |-> Expression("Identifier", Len(ns1))]
    ELSE IF e.k = "StringLiteral" THEN
        LET ns1 == alloc(ns, [kind |-> "StringLiteral", value |-> e.value,
                              parent |-> ParentNone])
        IN [nodes |-> ns1, expr |-> Expression("StringLiteral", Len(ns1))]
    ELSE IF e.k = "UnaryExpression" THEN
        LET a   == parse_expression(e.arg, ns)
            ns1 == alloc(a.nodes, [kind |-> "UnaryExpression", operator |-> e.op,
                                   argument |-> a.expr, parent |-> ParentNone])
            me  == Len(ns1)
        IN [nodes |-> set_parent(ns1, a.expr, ExpressionParent("UnaryExpression", me)),
            expr  |-> Expression("UnaryExpression", me)]
    ELSE
        LET l   == parse_expression(e.l, ns)
            r   == parse_expression(e.r, l.nodes)
            ns1 == alloc(r.nodes, [kind |-> "BinaryExpression", operator |-> e.op,
                                   left |-> l.expr, right |-> r.expr,
                                   parent |-> ParentNone])
            me  == Len(ns1)
            ns2 == set_parent(ns1, l.expr, ExpressionParent("BinaryExpressionLeft", me))
        IN [nodes |-> set_parent(ns2, r.expr, ExpressionParent("BinaryExpressionRight", me)),
            expr  |-> Expression("BinaryExpression", me)]

\* The whole of `parse`: expression, expression statement, program; the
\* nodes go to the addresses after those of `heap`
parse_in(e, heap) ==
    LET x   == parse_expression(e, heap)
        ns1 == alloc(x.nodes, [kind |-> "ExpressionStatement", expression |-> x.expr,
                               parent |-> ParentNone])
        es  == Len(ns1)
        ns2 == set_parent(ns1, x.expr, ExpressionParent("ExpressionStatement", es))
        ns3 == alloc(ns2, [kind |-> "Program", body |-> <<Statement(es)>>])
        ns4 == [ns3 EXCEPT ![es].parent = ExpressionParent("Program", Len(ns3))]
    IN [nodes |-> ns4, stmt |-> Statement(es), program |-> Len(ns3)]

\* parse, as the one tree of the process
parse(e) == parse_in(e, <<>>)

-----------------------------------------------------------------------------
(* The printer: print.rs *)

\* prefixes with no space after the keyword operators
bare_prefix(op) ==
    CASE op = "UnaryNegation" -> "-"
      [] op = "UnaryPlus"     -> "+"
      [] op = "LogicalNot"    -> "!"
      [] op = "BitwiseNot"    -> "~"
      [] op = "Typeof"        -> "typeof"
      [] op = "Void"          -> "void"
      [] op = "Delete"        -> "delete"

unary_prefix(op) ==
    CASE op = "UnaryNegation" -> "-"
      [] op = "UnaryPlus"     -> "+"
      [] op = "LogicalNot"    -> "!"
      [] op = "BitwiseNot"    -> "~"
      [] op = "Typeof"        -> "typeof "
      [] op = "Void"          -> "void "
      [] op = "Delete"        -> "delete "

binary_symbol(op) ==
    CASE op = "Equality"       -> "=="
      [] op = "StrictEquality" -> "==="

RECURSIVE Printer_visit_expression(_, _)
\* The Printer's hooks, reached through the default walk_expression.
Printer_visit_expression(ns, expr) ==
    LET node == ns[expr.id] IN
    CASE expr.variant = "Identifier"       -> node.name
      [] expr.variant = "StringLiteral"    -> "'" \o node.value \o "'"
      [] expr.variant = "UnaryExpression"  ->
            unary_prefix(node.operator) \o Printer_visit_expression(ns, node.argument)
      [] expr.variant = "BinaryExpression" ->
            Printer_visit_expression(ns, node.left)
            \o " " \o binary_symbol(node.operator) \o " "
            \o Printer_visit_expression(ns, node.right)

\* Printer::print(stmt, nodes)
Printer_print(ns, stmt) == Printer_visit_expression(ns, ns[stmt.id].expression)

-----------------------------------------------------------------------------
(* Narrowing: ast.rs *)

\* AstRef::as_binary: Some only for a BinaryExpression node
as_binary(ns, id) == id \in 1..Len(ns) /\ ns[id].kind = "BinaryExpression"

\* AstRef::as_expr: Some only for an Expression
as_expr(x) == x.variant \in ExpressionVariants

-----------------------------------------------------------------------------
(* Token and cells: cell.rs, context.rs *)

\* The cell a node reference points at
Cell(variant, id) == [variant |-> variant, id |-> id]

\* GCell::borrow / GCell::borrow_mut: a reference to the cell's content that
\* lives in the frame at depth d
borrow(bs, cell, d) == bs \cup {[cell |-> cell, mode |-> "shared", depth |-> d]}

borrow_mut(bs, cell, d) == bs \cup {[cell |-> cell, mode |-> "mut", depth |-> d]}

\* TraverseCtx::get_node / get_node_mut: both take `&self` and make their
\* token reference out of the UnsafeCell, so neither waits for, nor ends, any
\* borrow already handed out.
get_node(bs, cell, d) == borrow(bs, cell, d)

get_node_mut(bs, cell, d) == borrow_mut(bs, cell, d)

\* references that stay behind when the frame that took them is gone
keep_borrows(bs, d) == bs

\* The references a frame took go out of scope with it
release(bs, d) == {b \in bs : b.depth # d}

\* Token::new_unchecked: one more token exists
new_unchecked(n) == n + 1

\* a token that is never dropped
keep_token(n) == n

\* the token goes out of scope
drop_token(n) == n - 1

-----------------------------------------------------------------------------
(* The visitors *)

Transformers == {"TransformTypeof", "Counter"}

Kinds ==
    {"ExpressionStatement", "BinaryExpression", "UnaryExpression", "StringLiteral",
     "Identifier"}

NoCounts == [k \in Kinds |-> 0]

\* the counting visitor's hook body: one more node of this kind
count(c, t, kind) == IF t = "Counter" THEN [c EXCEPT ![kind] = @ + 1] ELSE c

-----------------------------------------------------------------------------
(* Call stack *)

NoExpr == [variant |-> "None", id |-> 0]

Frame(fn, arg) == [fn |-> fn, arg |-> arg, pc |-> "enter", right |-> NoExpr]

depth == Len(stack)

Top == stack[depth]

Running(fn, pc) == depth > 0 /\ Top.fn = fn /\ Top.pc = pc

Goto(pc) == stack' = [stack EXCEPT ![depth].pc = pc]

Call(pc, fn, arg) == stack' = Append([stack EXCEPT ![depth].pc = pc], Frame(fn, arg))

Logged(hook, arg) == log' = Append(log, [hook |-> hook, id |-> arg.id])

\* no access made yet
NoAccess == [op |-> "none"]

\* the caller runs one thread only
NoThread == [thread |-> 0]

-----------------------------------------------------------------------------
Init ==
    /\ src \in Sources
    /\ nodes = parse(src).nodes
    /\ root = parse(src).stmt
    /\ stack = <<>>
    /\ borrows = {}
    /\ tokens = 0
    /\ transformer = "none"
    /\ runs = <<>>
    /\ counts = NoCounts
    /\ log = <<>>
    /\ output = {}
    /\ access = NoAccess
    /\ thread = 1
    /\ parked = NoThread

\* Printer::print(stmt, &mut nodes) from `test`: the text of the tree as it is
\* after the transform calls made so far
print ==
    /\ stack = <<>>
    /\ output' = output \cup {[after |-> Len(runs), text |-> Printer_print(nodes, root)]}
    /\ UNCHANGED <<src, nodes, root, stack, borrows, tokens, transformer, runs, counts, log>>
    /\ UNCHANGED <<access, thread, parked>>

\* a view conversion that builds the cells from the nodes' own fields only
from_fields(ns) ==
    [i \in 1..Len(ns) |->
        IF ns[i].kind = "IdentifierReference" THEN [ns[i] EXCEPT !.parent = ParentNone]
        ELSE ns[i]]

\* GCell::from_mut(t): the same reference, retyped `&mut GCell<T>`; GCell is
\* #[repr(transparent)], so the storage behind it is the storage of t
from_mut(ns) == ns

\* transform(transformer, stmt): make the token and the context, view the
\* statement as a cell, call the top-level hook. The single-thread caller
\* makes up to MaxRuns calls; each of two threads makes one.
transform ==
    /\ stack = <<>>
    /\ Len(runs) < MaxRuns
    /\ parked # NoThread => runs = <<>>
    /\ \E t \in Transformers :
        /\ transformer' = t
        /\ tokens' = new_unchecked(tokens)
        /\ nodes' = from_mut(nodes)
        /\ stack' = <<[Frame("transform", root) EXCEPT !.pc = "ret"],
                      Frame("visit_statement", root)>>
        /\ counts' = NoCounts
        /\ log' = <<>>
    /\ UNCHANGED <<src, root, borrows, runs, output>>
    /\ UNCHANGED <<access, thread, parked>>

\* ... and on return the token and the context go out of scope
transform_return ==
    /\ Running("transform", "ret")
    /\ tokens' = drop_token(tokens)
    /\ borrows' = release(borrows, depth)
    /\ stack' = <<>>
    /\ runs' = Append(runs, [transformer |-> transformer, nodes |-> nodes])
    /\ UNCHANGED <<src, nodes, root, transformer, counts, log, output>>
    /\ UNCHANGED <<access, thread, parked>>

\* a hook or walk function returns to its caller
Return ==
    /\ depth > 0 /\ Top.pc = "ret" /\ Top.fn # "transform"
    /\ stack' = SubSeq(stack, 1, depth - 1)
    /\ borrows' = release(borrows, depth)
    /\ UNCHANGED <<src, nodes, root, tokens, transformer, runs, counts, log, output>>
    /\ UNCHANGED <<access, thread, parked>>

-----------------------------------------------------------------------------
(* The default traversal: traverse.rs *)

visit_statement ==
    /\ Running("visit_statement", "enter")
    /\ Logged("visit_statement", Top.arg)
    /\ Call("ret", "walk_statement", Top.arg)
    /\ UNCHANGED <<src, nodes, root, borrows, tokens, transformer, runs, counts, output>>
    /\ UNCHANGED <<access, thread, parked>>

\* match ctx.get_node(stmt) { ExpressionStatement(expr_stmt) => ... }
walk_statement ==
    /\ \/ /\ Running("walk_statement", "enter")
          /\ borrows' = get_node(borrows, Cell("Statement", Top.arg.id), depth)
          /\ Goto("match")
       \/ /\ Running("walk_statement", "match")
          /\ borrows' = release(borrows, depth)
          /\ Call("ret", "visit_expression_statement", Top.arg)
    /\ UNCHANGED <<src, nodes, root, tokens, transformer, runs, counts, log, output>>
    /\ UNCHANGED <<access, thread, parked>>

visit_expression_statement ==
    /\ Running("visit_expression_statement", "enter")
    /\ counts' = count(counts, transformer, "ExpressionStatement")
    /\ Logged("visit_expression_statement", Top.arg)
    /\ Call("ret", "walk_expression_statement", Top.arg)
    /\ UNCHANGED <<src, nodes, root, borrows, tokens, transformer, runs, output>>
    /\ UNCHANGED <<access, thread, parked>>

\* self.visit_expression(&ctx.get_node(expr_stmt).expression.clone(), ctx)
walk_expression_statement ==
    /\ \/ /\ Running("walk_expression_statement", "enter")
          /\ borrows' = get_node(borrows, Cell("ExpressionStatement", Top.arg.id), depth)
          /\ Goto("call")
       \/ /\ Running("walk_expression_statement", "call")
          /\ borrows' = release(borrows, depth)
          /\ Call("ret", "visit_expression", nodes[Top.arg.id].expression)
    /\ UNCHANGED <<src, nodes, root, tokens, transformer, runs, counts, log, output>>
    /\ UNCHANGED <<access, thread, parked>>

visit_expression ==
    /\ Running("visit_expression", "enter")
    /\ Logged("visit_expression", Top.arg)
    /\ Call("ret", "walk_expression", Top.arg)
    /\ UNCHANGED <<src, nodes, root, borrows, tokens, transformer, runs, counts, output>>
    /\ UNCHANGED <<access, thread, parked>>

\* the hook walk_expression dispatches to, by variant
hook_of(variant) ==
    CASE variant = "Identifier"       -> "visit_identifier_reference"
      [] variant = "StringLiteral"    -> "visit_string_literal"
      [] variant = "BinaryExpression" -> "visit_binary_expression"
      [] variant = "UnaryExpression"  -> "visit_unary_expression"

walk_expression ==
    /\ Running("walk_expression", "enter")
    /\ Call("ret", hook_of(Top.arg.variant), Top.arg)
    /\ UNCHANGED <<src, nodes, root, borrows, tokens, transformer, runs, counts, log, output>>
    /\ UNCHANGED <<access, thread, parked>>

visit_identifier_reference ==
    /\ Running("visit_identifier_reference", "enter")
    /\ counts' = count(counts, transformer, "Identifier")
    /\ Logged("visit_identifier_reference", Top.arg)
    /\ Goto("ret")
    /\ UNCHANGED <<src, nodes, root, borrows, tokens, transformer, runs, output>>
    /\ UNCHANGED <<access, thread, parked>>

visit_string_literal ==
    /\ Running("visit_string_literal", "enter")
    /\ counts' = count(counts, transformer, "StringLiteral")
    /\ Logged("visit_string_literal", Top.arg)
    /\ Goto("ret")
    /\ UNCHANGED <<src, nodes, root, borrows, tokens, transformer, runs, output>>
    /\ UNCHANGED <<access, thread, parked>>

visit_binary_expression ==
    /\ Running("visit_binary_expression", "enter")
    /\ counts' = count(counts, transformer, "BinaryExpression")
    /\ Logged("visit_binary_expression", Top.arg)
    /\ Call("ret", "walk_binary_expression", Top.arg)
    /\ UNCHANGED <<src, nodes, root, borrows, tokens, transformer, runs, output>>
    /\ UNCHANGED <<access, thread, parked>>

\* a walk whose second visit is of the binary expression itself
read_self(f, ns) == {f.arg}

\* a walk that reads `left` for its second visit too
read_left_again(f, ns) == {ns[f.arg.id].left}

\* What `node.right` can yield when it is read after the visit of left: the
\* field as it is now; and, `node` being a shared reference that was live
\* while a hook wrote the node through get_node_mut, also the value the
\* field had when `node` was taken (f.right).
read_right(f, ns) == {ns[f.arg.id].right, f.right}

\* let node = ctx.get_node(bin_expr);
\* self.visit_expression(&node.left.clone(), ctx);
\* self.visit_expression(&node.right.clone(), ctx);
walk_binary_expression ==
    /\ \/ /\ Running("walk_binary_expression", "enter")
          /\ borrows' = get_node(borrows, Cell("BinaryExpression", Top.arg.id), depth)
          /\ stack' = [stack EXCEPT ![depth].pc = "left",
                                    ![depth].right = nodes[Top.arg.id].right]
       \/ /\ Running("walk_binary_expression", "left")
          /\ Call("right", "visit_expression", nodes[Top.arg.id].left)
          /\ UNCHANGED borrows
       \/ /\ Running("walk_binary_expression", "right")
          /\ \E r \in read_right(Top, nodes) : Call("ret", "visit_expression", r)
          /\ UNCHANGED borrows
    /\ UNCHANGED <<src, nodes, root, tokens, transformer, runs, counts, log, output>>
    /\ UNCHANGED <<access, thread, parked>>

\* the default hook
visit_unary_expression ==
    /\ Running("visit_unary_expression", "enter")
    /\ transformer # "TransformTypeof"
    /\ counts' = count(counts, transformer, "UnaryExpression")
    /\ Logged("visit_unary_expression", Top.arg)
    /\ Call("ret", "walk_unary_expression", Top.arg)
    /\ UNCHANGED <<src, nodes, root, borrows, tokens, transformer, runs, output>>
    /\ UNCHANGED <<access, thread, parked>>

\* self.visit_expression(&ctx.get_node(unary_expr).argument.clone(), ctx)
walk_unary_expression ==
    /\ \/ /\ Running("walk_unary_expression", "enter")
          /\ borrows' = get_node(borrows, Cell("UnaryExpression", Top.arg.id), depth)
          /\ Goto("call")
       \/ /\ Running("walk_unary_expression", "call")
          /\ borrows' = release(borrows, depth)
          /\ Call("ret", "visit_expression", nodes[Top.arg.id].argument)
    /\ UNCHANGED <<src, nodes, root, tokens, transformer, runs, counts, log, output>>
    /\ UNCHANGED <<access, thread, parked>>

-----------------------------------------------------------------------------
(* TransformTypeof: main.rs *)

\* node.operator != UnaryOperator::Typeof  =>  return
not_typeof(ns, id) == ns[id].operator # "Typeof"

\* matches!(binary.operator, Equality | StrictEquality)
is_equality(ns, p) == ns[p].operator \in {"Equality", "StrictEquality"}

\* nodes.get_node(binary.right).as_expr().is_some()
right_is_expr(ns, p) == as_expr(ns[p].right)

\* an assignment of one operand to the other in place of the exchange
assign_right_to_left(ns, p) == [ns EXCEPT ![p].left = ns[p].right]

\* an exchange in the binary expression at the lowest address, whatever p is
swap_at_lowest(ns, p) ==
    LET q == CHOOSE b \in 1..Len(ns) :
                 /\ ns[b].kind = "BinaryExpression"
                 /\ \A c \in 1..(b - 1) : ns[c].kind # "BinaryExpression"
    IN [ns EXCEPT ![q].left = ns[q].right, ![q].right = ns[q].left]

\* an exchange that puts a fresh copy of the left operand in the right slot
swap_in_a_copy(ns, p) ==
    Append([ns EXCEPT ![p].left = ns[p].right,
                      ![p].right = [variant |-> ns[p].left.variant, id |-> Len(ns) + 1]],
           ns[ns[p].left.id])

\* std::mem::swap(&mut parent.left, &mut parent.right)
mem_swap(ns, p) == [ns EXCEPT ![p].left = ns[p].right, ![p].right = ns[p].left]

TransformTypeof_visit_unary_expression ==
    /\ depth > 0 /\ Top.fn = "visit_unary_expression"
    /\ transformer = "TransformTypeof"
    /\ LET id == Top.arg.id
           p  == nodes[id].parent.node
       IN
       \/ /\ Top.pc = "enter"
          \* let node = nodes.get_node(id).as_unary_unchecked();
          /\ Logged("visit_unary_expression", Top.arg)
          /\ borrows' = get_node(borrows, Cell("UnaryExpression", id), depth)
          /\ IF not_typeof(nodes, id) THEN Goto("ret") ELSE Goto("parent")
          /\ UNCHANGED nodes
       \/ /\ Top.pc = "parent"
          \* let Some(binary) = nodes.get_node(node.parent).as_binary() else { return };
          /\ borrows' = get_node(borrows, Cell(nodes[p].kind, p), depth)
          /\ IF as_binary(nodes, p) THEN Goto("guard") ELSE Goto("ret")
          /\ UNCHANGED <<nodes, log>>
       \/ /\ Top.pc = "guard"
          /\ IF ~is_equality(nodes, p) THEN
                 Goto("ret") /\ UNCHANGED <<nodes, borrows>>
             ELSE IF right_is_expr(nodes, p) THEN
                 \* `node` and `binary` are last used here; then
                 \* nodes.get_node_mut(parent_id) and the swap
                 /\ borrows' = get_node_mut(release(borrows, depth),
                                            Cell("BinaryExpression", p), depth)
                 /\ nodes' = mem_swap(nodes, p)
                 /\ Goto("walk")
             ELSE
                 Goto("walk") /\ UNCHANGED <<nodes, borrows>>
          /\ UNCHANGED log
       \/ /\ Top.pc = "walk"
          \* self.walk_unary_expression(id, nodes)
          /\ borrows' = release(borrows, depth)
          /\ Call("ret", "walk_unary_expression", Top.arg)
          /\ UNCHANGED <<nodes, log>>
    /\ UNCHANGED <<src, root, tokens, transformer, runs, counts, output>>
    /\ UNCHANGED <<access, thread, parked>>

-----------------------------------------------------------------------------
Next ==
    \/ print
    \/ transform
    \/ transform_return
    \/ Return
    \/ visit_statement
    \/ walk_statement
    \/ visit_expression_statement
    \/ walk_expression_statement
    \/ visit_expression
    \/ walk_expression
    \/ visit_identifier_reference
    \/ visit_string_literal
    \/ visit_binary_expression
    \/ walk_binary_expression
    \/ visit_unary_expression
    \/ walk_unary_expression
    \/ TransformTypeof_visit_unary_expression

Spec == Init /\ [][Next]_vars

-----------------------------------------------------------------------------
(* Node access by a caller that holds the arena: main.rs Nodes, ast.rs AstRef *)

AstType == {"Stmt", "Expr", "Ident", "Str", "Binary", "Unary"}

\* the two builds of AstRef: #[cfg(not(feature = "unsafe"))] and
\* #[cfg(feature = "unsafe")]; TRUE is the build with the feature
Features == BOOLEAN

\* what a call hands back: a reference to data, Some(reference), None, or a panic
Data(v) == [tag |-> "data", val |-> v]

Some(v) == [tag |-> "Some", val |-> v]

None == [tag |-> "None"]

Panic == [tag |-> "panic"]

\* as_ast_ref: the value under the AstType of its Rust type; an Expression
\* value (a tagged handle) is an Expr, an arena node is of its own kind
as_ast_ref(x) ==
    [ty |-> IF "kind" \notin DOMAIN x THEN "Expr"
            ELSE CASE x.kind = "ExpressionStatement"  -> "Stmt"
                   [] x.kind = "IdentifierReference"  -> "Ident"
                   [] x.kind = "StringLiteral"        -> "Str"
                   [] x.kind = "BinaryExpression"     -> "Binary"
                   [] x.kind = "UnaryExpression"      -> "Unary",
     val |-> x]

\* every AstRef of the tree: its nodes and the Expression values in its fields
AstRefs(ns) ==
    {as_ast_ref(ns[i]) : i \in {j \in 1..Len(ns) : ns[j].kind # "Program"}}
    \cup {as_ast_ref(ns[i].expression) : i \in {j \in 1..Len(ns) : ns[j].kind = "ExpressionStatement"}}
    \cup {as_ast_ref(ns[i].argument) : i \in {j \in 1..Len(ns) : ns[j].kind = "UnaryExpression"}}
    \cup UNION {{as_ast_ref(ns[i].left), as_ast_ref(ns[i].right)}
                : i \in {j \in 1..Len(ns) : ns[j].kind = "BinaryExpression"}}

ast_type(ref) == ref.ty

is(ref, ty) == ast_type(ref) = ty

\* as_stmt_unchecked .. as_unary_unchecked (and the _mut ones), for kind ty.
\* Without the feature: as_or_panic!, the payload or panic!(). With it:
\* `&self.val.<field of ty>`, a reference to the union's storage as type ty
\* whatever self.ty is, so for another kind the bytes of that kind's payload.
as_kind_unchecked(ref, ty, unsafe) ==
    IF unsafe THEN Data(ref.val)
    ELSE IF ref.ty = ty THEN Data(ref.val) ELSE Panic

\* as_stmt .. as_unary (and the _mut ones), for kind ty, the same in both builds
as_kind(ref, ty, unsafe) ==
    IF is(ref, ty) THEN Some(as_kind_unchecked(ref, ty, unsafe).val) ELSE None

\* the handles an arena has issued
Issued(ns) == 1..Len(ns)

\* &self.0[id.as_index()]: Vec indexing, a panic when the index is out of
\* bounds; the handle carries an index and nothing of the arena it is from
Nodes_index(ns, id) == IF id \in 1..Len(ns) THEN Data(ns[id]) ELSE Panic

\* a caller narrows an AstRef of the tree with a checked accessor
narrow_checked ==
    /\ stack = <<>>
    /\ \E ref \in AstRefs(nodes), ty \in AstType, unsafe \in Features :
        access' = [op |-> "narrow", checked |-> TRUE, unsafe |-> unsafe, ref |-> ref,
                   ty |-> ty, out |-> as_kind(ref, ty, unsafe)]
    /\ UNCHANGED <<src, nodes, root, stack, borrows, tokens, transformer, runs, counts, log, output>>
    /\ UNCHANGED <<thread, parked>>

\* ... with an unchecked accessor
narrow_unchecked ==
    /\ stack = <<>>
    /\ \E ref \in AstRefs(nodes), ty \in AstType, unsafe \in Features :
        access' = [op |-> "narrow", checked |-> FALSE, unsafe |-> unsafe, ref |-> ref,
                   ty |-> ty, out |-> as_kind_unchecked(ref, ty, unsafe)]
    /\ UNCHANGED <<src, nodes, root, stack, borrows, tokens, transformer, runs, counts, log, output>>
    /\ UNCHANGED <<thread, parked>>

\* Nodes::get_node / get_node_mut with a handle this arena issued, or with
\* one that the arena of another source issued
Nodes_get_node ==
    /\ stack = <<>>
    /\ \E own \in BOOLEAN :
       \E id \in (IF own THEN Issued(nodes)
                   ELSE UNION {Issued(parse(other).nodes) : other \in Sources \ {src}}) :
        access' = [op |-> "get_node", own |-> own, id |-> id,
                   out |-> Nodes_index(nodes, id)]
    /\ UNCHANGED <<src, nodes, root, stack, borrows, tokens, transformer, runs, counts, log, output>>
    /\ UNCHANGED <<thread, parked>>

AccessNext ==
    \/ narrow_checked
    \/ narrow_unchecked
    \/ Nodes_get_node

AccessSpec == Init /\ [][AccessNext]_vars

-----------------------------------------------------------------------------
(* Observations used by the properties *)

\* the tree as the parser returned it
Parsed == parse(src).nodes

\* no traversal is running: the states a caller of transform can observe
Idle == stack = <<>>

\* every transform call made so far ran TransformTypeof
OnlyTypeof == \A i \in 1..Len(runs) : runs[i].transformer = "TransformTypeof"

\* the field a parent tag names, read in tree ns, refers to node id
TagNames(ns, tag, id) ==
    /\ tag.node \in 1..Len(ns)
    /\ CASE tag.slot = "ExpressionStatement" ->
                ns[tag.node].kind = "ExpressionStatement" /\ ns[tag.node].expression.id = id
         [] tag.slot = "BinaryExpressionLeft" ->
                ns[tag.node].kind = "BinaryExpression" /\ ns[tag.node].left.id = id
         [] tag.slot = "BinaryExpressionRight" ->
                ns[tag.node].kind = "BinaryExpression" /\ ns[tag.node].right.id = id
         [] tag.slot = "UnaryExpression" ->
                ns[tag.node].kind = "UnaryExpression" /\ ns[tag.node].argument.id = id
         [] tag.slot = "Program" ->
                /\ ns[tag.node].kind = "Program"
                /\ \E i \in 1..Len(ns[tag.node].body) : ns[tag.node].body[i].id = id
         [] OTHER -> FALSE

\* parent consistency of a whole tree; the Program is the root
ParentConsistent(ns) ==
    \A id \in 1..Len(ns) : ns[id].kind # "Program" => TagNames(ns, ns[id].parent, id)

RECURSIVE Descendants(_, _)
\* the handles reachable from an Expression through child fields
Descendants(ns, expr) ==
    LET node == ns[expr.id] IN
    {expr.id} \cup
    CASE node.kind = "BinaryExpression" ->
             Descendants(ns, node.left) \cup Descendants(ns, node.right)
      [] node.kind = "UnaryExpression" -> Descendants(ns, node.argument)
      [] OTHER -> {}

\* the handles reachable from the root statement
Reachable(ns, stmt) == {stmt.id} \cup Descendants(ns, ns[stmt.id].expression)

\* the kind of node a counter of the counting visitor stands for
NodeKind(k) == IF k = "Identifier" THEN "IdentifierReference" ELSE k

NodesOfKind(ns, k) == {id \in 1..Len(ns) : ns[id].kind = NodeKind(k)}

\* a source `l OP r` whose right operand is not a string literal
RightNotStringLiteral(e) == e.k = "BinaryExpression" /\ e.r.k # "StringLiteral"

ScenarioText(op) == "typeof foo " \o binary_symbol(op) \o " 'object'"

TransformedText(op) == "'object' " \o binary_symbol(op) \o " typeof foo"

-----------------------------------------------------------------------------
(* The claims *)

\* C1: in every state a caller can observe (after parse and after any number
\* of TransformTypeof runs) every non-root node's parent tag, resolved to the
\* parent node and the field it names, yields the node itself.
C1_ParentConsistency == (Idle /\ OnlyTypeof) => ParentConsistent(nodes)

\* C2: a step of TransformTypeof that swaps a BinaryExpression's left and
\* right keeps the set of handles reachable from the root, and leaves each of
\* the two operands with a parent tag naming the slot it now occupies.
C2_SwapKeepsTagsAndReachability ==
    [][nodes' # nodes =>
        LET p == nodes[Top.arg.id].parent.node IN
        /\ Reachable(nodes', root) = Reachable(nodes, root)
        /\ nodes'[nodes'[p].left.id].parent = ExpressionParent("BinaryExpressionLeft", p)
        /\ nodes'[nodes'[p].right.id].parent = ExpressionParent("BinaryExpressionRight", p)
    ]_vars

\* C3: two TransformTypeof runs on a tree of `typeof x OP 'lit'`: the first
\* changes the tree, the second leaves it as the first left it.
C3_SecondPassIsNoOp ==
    (/\ src \in {Scenario(op) : op \in BinaryOperator}
     /\ Idle /\ OnlyTypeof /\ Len(runs) = 2)
    => (runs[1].nodes # Parsed /\ runs[2].nodes = runs[1].nodes)

\* C4: the tree of `typeof foo OP 'object'` prints as that text before the
\* transform and as `'object' OP typeof foo` after one TransformTypeof run.
C4_EndToEnd ==
    \A op \in BinaryOperator : \A o \in output :
        (src = Scenario(op) /\ OnlyTypeof) =>
            /\ o.after = 0 => o.text = ScenarioText(op)
            /\ o.after = 1 => o.text = TransformedText(op)

\* C5: TransformTypeof leaves a tree whose binary expression's right operand
\* is not a StringLiteral as it was (`typeof foo === bar` among them).
C5_RightNotStringUnchanged ==
    (RightNotStringLiteral(src) /\ Idle /\ OnlyTypeof) => nodes = Parsed

\* C6: TransformTypeof leaves `'object' OP typeof foo`, where the typeof
\* expression is in the right slot, as it was.
C6_RightSlotUnchanged ==
    (src \in {Mirrored(op) : op \in BinaryOperator} /\ Idle /\ OnlyTypeof) => nodes = Parsed

\* C7: a counting visitor that always does the default walk has counted,
\* when its traversal returns, every node of the tree exactly once: each
\* counter equals the number of nodes of its kind (one each for the tree of
\* `typeof foo === 'object'`).
C7_CountsEveryNodeOnce ==
    (Idle /\ Len(runs) > 0 /\ transformer = "Counter") =>
        /\ \A k \in Kinds : counts[k] = Cardinality(NodesOfKind(nodes, k))
        /\ src = Scenario("StrictEquality") => counts = [k \in Kinds |-> 1]

C7_Witness ==
    /\ Idle /\ Len(runs) > 0 /\ transformer = "Counter"
    /\ src = Scenario("StrictEquality")
    /\ counts = [k \in Kinds |-> 1]

\* C8: at most one access token exists at any time: exactly one while a
\* transform call is running, none once it has returned.
C8_OneToken ==
    /\ tokens <= 1
    /\ ~Idle => tokens = 1
    /\ Idle => tokens = 0

\* a second transform call is running under its own, single token
C8_Witness == ~Idle /\ Len(runs) = 1 /\ tokens = 1

\* C9: a mutable borrow taken through the traversal context never coexists
\* with any other live borrow taken through it.
C9_NoAliasedMutableBorrow ==
    \A b1, b2 \in borrows : b1 # b2 => (b1.mode # "mut" /\ b2.mode # "mut")

\* C10: every live borrow belongs to a call that has not returned yet, and
\* once transform has returned no borrow and no token is left.
C10_NoBorrowOutlivesItsCall ==
    /\ \A b \in borrows : b.depth \in 1..depth
    /\ Idle => (borrows = {} /\ tokens = 0)

\* the TransformTypeof hook on the left operand took its borrows, swapped and
\* returned: only the walk's own borrow of the binary expression is live
C10_Witness ==
    /\ Running("walk_binary_expression", "right")
    /\ transformer = "TransformTypeof"
    /\ nodes # Parsed
    /\ borrows = {[cell |-> Cell("BinaryExpression", Top.arg.id), mode |-> "shared",
                   depth |-> depth]}

\* the tree as it was when transform call number i was made
TreeBefore(i) == IF i = 1 THEN Parsed ELSE runs[i - 1].nodes

-----------------------------------------------------------------------------
LogEntry(hook, id) == [hook |-> hook, id |-> id]

Range(f) == {f[i] : i \in DOMAIN f}

RECURSIVE PreOrder(_, _)
\* the hook invocations of a pre-order visit of an Expression: the node
\* first, then the subtree of each child, the left child before the right
PreOrder(ns, expr) ==
    LET node == ns[expr.id] IN
    <<LogEntry("visit_expression", expr.id),
      LogEntry("visit_" \o (IF node.kind = "IdentifierReference" THEN "identifier_reference"
                            ELSE IF node.kind = "StringLiteral" THEN "string_literal"
                            ELSE IF node.kind = "BinaryExpression" THEN "binary_expression"
                            ELSE "unary_expression"), expr.id)>>
    \o CASE node.kind = "BinaryExpression" ->
               PreOrder(ns, node.left) \o PreOrder(ns, node.right)
          [] node.kind = "UnaryExpression" -> PreOrder(ns, node.argument)
          [] OTHER -> <<>>

\* ... of a Statement: the statement, the expression statement, its expression
PreOrderOfStatement(ns, stmt) ==
    <<LogEntry("visit_statement", stmt.id), LogEntry("visit_expression_statement", stmt.id)>>
    \o PreOrder(ns, ns[stmt.id].expression)

\* the nodes strictly below node id
Below(ns, id) == Descendants(ns, [id |-> id]) \ {id}

\* the position of the first hook invocation on node id
FirstHook(id) == CHOOSE i \in 1..Len(log) : log[i].id = id /\ \A j \in 1..(i - 1) : log[j].id # id

\* C12: a traversal with default hooks is pre-order with a fixed child order:
\* at every moment the hooks invoked so far are a prefix of the pre-order
\* sequence (statement, its expression, a binary expression's left subtree
\* and then its right subtree, a unary expression's argument), the whole
\* sequence once the traversal has returned; so the hook of a node is entered
\* before the hook of any node below it.
C12_PreOrder ==
    (transformer = "Counter") =>
        LET expected == PreOrderOfStatement(nodes, root) IN
        /\ Len(log) <= Len(expected)
        /\ log = SubSeq(expected, 1, Len(log))
        /\ Idle => log = expected
        /\ \A i, j \in 1..Len(log) :
               log[j].id \in Below(nodes, log[i].id) => FirstHook(log[i].id) < j

\* the finished default traversal of `(typeof foo === 'object') == 's'`: the
\* outer binary expression, then its left operand and all below it, and its
\* right operand last
C12_Witness ==
    /\ Idle /\ transformer = "Counter"
    /\ src = Bin("Equality", Scenario("StrictEquality"), Str("s"))
    /\ Len(log) = 14
    /\ LET b == nodes[root.id].expression.id IN
       /\ log[4] = LogEntry("visit_binary_expression", b)
       /\ log[6] = LogEntry("visit_binary_expression", nodes[b].left.id)
       /\ log[8] = LogEntry("visit_unary_expression", nodes[nodes[b].left.id].left.id)
       /\ log[14] = LogEntry("visit_string_literal", nodes[b].right.id)

-----------------------------------------------------------------------------
\* the nodes a hook has been invoked on in the running / last traversal
Hooked == {log[i].id : i \in 1..Len(log)}

\* the TransformTypeof hook on unary expression id returns without its walk:
\* the operator is not typeof, or the parent is not a binary expression
Prunes(ns, id) ==
    /\ ns[id].kind = "UnaryExpression"
    /\ ns[id].operator # "Typeof" \/ ns[ns[id].parent.node].kind # "BinaryExpression"

\* the unary expressions whose hook was invoked and returned without walking
Pruned == {id \in Hooked : LogEntry("visit_unary_expression", id) \in Range(log)
                             /\ Prunes(nodes, id)}

\* C13: when the overriding hook of TransformTypeof returns without invoking
\* its default walk, no hook is ever invoked on a node below that unary
\* expression, and by the time the traversal has returned every node of the
\* tree outside those subtrees has had its hook invoked.
C13_PrunedSubtree ==
    (transformer = "TransformTypeof") =>
        /\ \A u \in Pruned : Below(nodes, u) \cap Hooked = {}
        /\ (Idle /\ Pruned # {}) =>
               Reachable(nodes, root) \ UNION {Below(nodes, u) : u \in Pruned} \subseteq Hooked

-----------------------------------------------------------------------------
\* the child fields of a node, each with the handle it holds
ChildFields(node) ==
    CASE node.kind = "Program" ->
             {[field |-> <<"body", i>>, id |-> node.body[i].id] : i \in DOMAIN node.body}
      [] node.kind = "ExpressionStatement" ->
             {[field |-> <<"expression">>, id |-> node.expression.id]}
      [] node.kind = "BinaryExpression" ->
             {[field |-> <<"left">>, id |-> node.left.id],
              [field |-> <<"right">>, id |-> node.right.id]}
      [] node.kind = "UnaryExpression" ->
             {[field |-> <<"argument">>, id |-> node.argument.id]}
      [] OTHER -> {}

\* the (node, field) pairs whose field holds handle id
Referrers(ns, id) ==
    UNION {{[node |-> p, field |-> c.field] : c \in {d \in ChildFields(ns[p]) : d.id = id}}
           : p \in 1..Len(ns)}

RECURSIVE Within(_, _, _)
\* the handles reached from the set S by following child fields at most n times
Within(ns, S, n) ==
    IF n = 0 THEN S
    ELSE Within(ns, S \cup UNION {{c.id : c \in ChildFields(ns[p])} : p \in S}, n - 1)

\* the root of the ownership graph
ProgramNodes(ns) == {id \in 1..Len(ns) : ns[id].kind = "Program"}

\* a tree: one root, held by no field; every other node held by exactly one
\* field of one node; every node reached from the root (so no chain of child
\* fields comes back to a node)
TreeShaped(ns) ==
    /\ Cardinality(ProgramNodes(ns)) = 1
    /\ \A id \in 1..Len(ns) :
           Cardinality(Referrers(ns, id)) = IF id \in ProgramNodes(ns) THEN 0 ELSE 1
    /\ Within(ns, ProgramNodes(ns), Len(ns)) = 1..Len(ns)

\* C14: in every state reached by parse and any number of transform calls
\* (and in every state in between) the nodes and their child fields, parent
\* tags left aside, form a tree.
C14_OwnershipIsATree == TreeShaped(nodes)

\* a tree that a run has edited and left edited
C14_Witness == Idle /\ runs # <<>> /\ nodes # Parsed /\ TreeShaped(nodes)

-----------------------------------------------------------------------------
(* Two threads, each calling transform once on a tree of its own:
   cell.rs, Token::new_unchecked *)

\* the sources the two threads' trees are parsed from
ConcSources == {Scenario("StrictEquality"), Mirrored("Equality")}

\* what belongs to one thread: the tree it holds, its call stack, and the
\* token, context, visitor and results of its transform call
ThreadLocals ==
    [thread |-> thread, src |-> src, root |-> root, stack |-> stack, borrows |-> borrows,
     tokens |-> tokens, transformer |-> transformer, runs |-> runs, counts |-> counts,
     log |-> log]

\* a thread that has not called transform yet
Spawned(id, source, stmt) ==
    [thread |-> id, src |-> source, root |-> stmt, stack |-> <<>>, borrows |-> {},
     tokens |-> 0, transformer |-> "none", runs |-> <<>>, counts |-> NoCounts, log |-> <<>>]

\* both trees parsed, in one address space; neither thread has started
ConcInit ==
    \E s1 \in ConcSources, s2 \in ConcSources :
        LET t1 == parse(s1)
            t2 == parse_in(s2, t1.nodes)
        IN /\ nodes = t2.nodes
           /\ src = s1 /\ root = t1.stmt /\ thread = 1
           /\ parked = Spawned(2, s2, t2.stmt)
           /\ stack = <<>> /\ borrows = {} /\ tokens = 0 /\ transformer = "none"
           /\ runs = <<>> /\ counts = NoCounts /\ log = <<>>
           /\ output = {} /\ access = NoAccess

\* the scheduler takes the running thread off the processor and runs the other
switch ==
    /\ parked # NoThread
    /\ parked' = ThreadLocals
    /\ thread' = parked.thread
    /\ src' = parked.src
    /\ root' = parked.root
    /\ stack' = parked.stack
    /\ borrows' = parked.borrows
    /\ tokens' = parked.tokens
    /\ transformer' = parked.transformer
    /\ runs' = parked.runs
    /\ counts' = parked.counts
    /\ log' = parked.log
    /\ UNCHANGED <<nodes, output, access>>

ConcNext ==
    \/ switch
    \/ transform
    \/ transform_return
    \/ Return
    \/ visit_statement
    \/ walk_statement
    \/ visit_expression_statement
    \/ walk_expression_statement
    \/ visit_expression
    \/ walk_expression
    \/ visit_identifier_reference
    \/ visit_string_literal
    \/ visit_binary_expression
    \/ walk_binary_expression
    \/ visit_unary_expression
    \/ walk_unary_expression
    \/ TransformTypeof_visit_unary_expression

ConcSpec == ConcInit /\ [][ConcNext]_vars

-----------------------------------------------------------------------------
\* C15: narrowing an AstRef to a kind it is not never returns data: the
\* unchecked accessor panics and the checked accessor returns None; narrowing
\* to its own kind returns the payload.
C15_NarrowingNeverReturnsWrongData ==
    (access.op = "narrow") =>
        IF access.ref.ty = access.ty
        THEN access.out = IF access.checked THEN Some(access.ref.val) ELSE Data(access.ref.val)
        ELSE access.out = IF access.checked THEN None ELSE Panic

\* C16: get_node / get_node_mut return a node only for a handle that the
\* arena itself issued, the node it issued the handle for; with a handle
\* from another arena the call panics.
C16_ForeignHandleFails ==
    (access.op = "get_node") =>
        access.out = IF access.own THEN Data(nodes[access.id]) ELSE Panic

-----------------------------------------------------------------------------
\* the locals of thread t, running or not
Locals(t) == IF thread = t THEN ThreadLocals ELSE parked

\* both trees as the parser left them
Heap0 == parse_in(Locals(2).src, parse(Locals(1).src).nodes).nodes

\* the addresses of the tree under statement stmt, its Program node included
OwnTree(ns, stmt) ==
    Reachable(ns, stmt)
    \cup {p \in ProgramNodes(ns) : stmt.id \in {c.id : c \in ChildFields(ns[p])}}

\* tree ns with the operands of its binary expression b exchanged
Exchanged(ns, b) == [ns EXCEPT ![b].left = ns[b].right, ![b].right = ns[b].left]

\* what the transform call of thread t leaves of both trees when no other
\* thread runs: a default-walk visitor leaves them as parsed; TransformTypeof
\* on `typeof foo OP 'object'` leaves the operands exchanged or as parsed,
\* on `'object' OP typeof foo` exchanged
AloneResults(t) ==
    LET b == Heap0[Locals(t).root.id].expression.id IN
    IF Locals(t).transformer = "Counter" THEN {Heap0}
    ELSE IF Heap0[b].left.variant = "UnaryExpression" THEN {Heap0, Exchanged(Heap0, b)}
    ELSE {Exchanged(Heap0, b)}

\* what thread t's tree can be at this point of thread t's own call
AloneStates(t) ==
    LET l == Locals(t) IN
    IF l.stack = <<>> /\ l.runs = <<>> THEN {Heap0}
    ELSE IF l.stack = <<>> THEN AloneResults(t)
    ELSE IF l.transformer = "Counter" THEN {Heap0}
    ELSE {Heap0, Exchanged(Heap0, Heap0[l.root.id].expression.id)}

\* C18: two transform calls on two threads, each on its own tree under its
\* own token, in every interleaving: each tree is at every moment what its
\* own thread's call alone makes of it, and in the end what the call leaves
\* when run alone; each thread has at most one token, and the borrows taken
\* through a thread's context are of cells of that thread's tree.
C18_ThreadsDoNotInterfere ==
    \A t \in {1, 2} :
        LET l == Locals(t) IN
        /\ \E X \in AloneStates(t) : \A id \in OwnTree(Heap0, l.root) : nodes[id] = X[id]
        /\ l.tokens = IF l.stack = <<>> THEN 0 ELSE 1
        /\ \A b \in l.borrows : b.cell.id \in OwnTree(nodes, l.root)

\* both threads are inside transform at once, each with its token; the
\* parked one runs TransformTypeof and has exchanged the operands of its
\* tree, the running one is in the middle of a default walk
C18_Witness ==
    /\ parked # NoThread
    /\ stack # <<>> /\ parked.stack # <<>>
    /\ tokens = 1 /\ parked.tokens = 1
    /\ transformer = "Counter" /\ parked.transformer = "TransformTypeof"
    /\ Running("walk_binary_expression", "right")
    /\ nodes # Heap0

-----------------------------------------------------------------------------
\* the unary operators written as a word, and the word
KeywordOperators == [Typeof |-> "typeof", Void |-> "void", Delete |-> "delete"]

\* the unary operators written as a sign, and the sign
SignOperators ==
    [UnaryNegation |-> "-", UnaryPlus |-> "+", LogicalNot |-> "!", BitwiseNot |-> "~"]

RECURSIVE Canonical(_, _)
\* the canonical text of an expression: a sign directly before the argument,
\* a keyword and one space before the argument, `left OP right` with one
\* space on each side of == / ===, a string literal between single quotes,
\* an identifier as its name
Canonical(ns, expr) ==
    LET node == ns[expr.id] IN
    CASE node.kind = "IdentifierReference" -> node.name
      [] node.kind = "StringLiteral" -> "'" \o node.value \o "'"
      [] node.kind = "UnaryExpression" ->
             (IF node.operator \in DOMAIN KeywordOperators
              THEN KeywordOperators[node.operator] \o " "
              ELSE SignOperators[node.operator])
             \o Canonical(ns, node.argument)
      [] node.kind = "BinaryExpression" ->
             Canonical(ns, node.left)
             \o (IF node.operator = "Equality" THEN " == " ELSE " === ")
             \o Canonical(ns, node.right)

\* the tree as it was after the first n transform calls
TreeAfter(n) == IF n = 0 THEN Parsed ELSE runs[n].nodes

\* C19: every text the printer has returned is the canonical text of the tree
\* it was given.
C19_CanonicalText ==
    \A o \in output :
        o.text = Canonical(TreeAfter(o.after), TreeAfter(o.after)[root.id].expression)

\* `!typeof x === 'a'` printed: a sign prefix, a keyword prefix, a binary
\* operator, an identifier and a string literal in one text
C19_Witness ==
    /\ src = Un("LogicalNot", Bin("StrictEquality", Un("Typeof", Id("x")), Str("a")))
    /\ [after |-> 0, text |-> "!typeof x === 'a'"] \in output

-----------------------------------------------------------------------------
\* what a node is, its links to other nodes left aside
OwnData(node) ==
    CASE node.kind = "IdentifierReference" -> <<node.kind, node.name>>
      [] node.kind = "StringLiteral" -> <<node.kind, node.value>>
      [] node.kind \in {"UnaryExpression", "BinaryExpression"} -> <<node.kind, node.operator>>
      [] OTHER -> <<node.kind>>

\* arenas a and b hold the same nodes under the same handles
SameNodes(a, b) == Len(a) = Len(b) /\ \A id \in 1..Len(a) : OwnData(a[id]) = OwnData(b[id])

\* C20: a transform neither copies, adds nor removes nodes: in every state
\* after parse, and in the tree each transform call left, the arena holds
\* the nodes the parser allocated, each under the handle the parser gave it.
C20_SameNodesSameHandles ==
    /\ SameNodes(nodes, Parsed)
    /\ \A i \in 1..Len(runs) : SameNodes(runs[i].nodes, Parsed)

\* two calls made, the first of which edited the tree
C20_Witness ==
    /\ Idle /\ Len(runs) = 2 /\ runs[1].nodes # Parsed
    /\ Len(nodes) = Len(Parsed) /\ Reachable(nodes, root) = Reachable(Parsed, root)

-----------------------------------------------------------------------------
(* A traversal that runs to its end: the thread that called transform keeps
   executing, one call or return after another, until transform returns *)

\* one step of the running traversal
Step ==
    \/ transform_return
    \/ Return
    \/ visit_statement
    \/ walk_statement
    \/ visit_expression_statement
    \/ walk_expression_statement
    \/ visit_expression
    \/ walk_expression
    \/ visit_identifier_reference
    \/ visit_string_literal
    \/ visit_binary_expression
    \/ walk_binary_expression
    \/ visit_unary_expression
    \/ walk_unary_expression
    \/ TransformTypeof_visit_unary_expression

TraverseNext ==
    \/ transform
    \/ Step

TraverseSpec == Init /\ [][TraverseNext]_vars /\ WF_vars(Step)

RECURSIVE Height(_, _)
\* the number of nodes on the longest path from an Expression down to a leaf
Height(ns, expr) ==
    LET node == ns[expr.id]
        Max(a, b) == IF a < b THEN b ELSE a
    IN 1 + CASE node.kind = "BinaryExpression" ->
                    Max(Height(ns, node.left), Height(ns, node.right))
             [] node.kind = "UnaryExpression" -> Height(ns, node.argument)
             [] OTHER -> 0

\* the depth of the tree under a Statement: the statement and its expression
TreeDepth(ns, stmt) == 1 + Height(ns, ns[stmt.id].expression)

\* the calls on the stack that enter a node: one per node being visited
Entered == {i \in 1..depth : stack[i].fn \in {"visit_expression_statement", "visit_expression"}}

\* the node of each call is the node of its caller or a child of it
Descends ==
    \A i \in 2..depth :
        \/ stack[i].arg.id = stack[i - 1].arg.id
        \/ stack[i].arg.id \in {c.id : c \in ChildFields(nodes[stack[i - 1].arg.id])}

\* the hook of node id was invoked more than once
HookedAgain(id) == Cardinality({i \in 1..Len(log) : log[i].id = id /\ log[i].hook # "visit_expression"}) > 1

\* C21: a traversal of a finite tree terminates: a transform call running
\* TransformTypeof or a default-walk visitor returns after finitely many
\* hooks, and while it runs the calls on the stack go down one path of the
\* tree, no more nodes entered than the tree is deep.
C21_Terminates ==
    /\ [](Descends /\ Cardinality(Entered) <= TreeDepth(nodes, root))
    /\ (~Idle ~> Idle)

\* a TransformTypeof run that swapped the operands under the running walk,
\* visited the typeof expression again, and returned
C21_Witness ==
    /\ Idle /\ Len(runs) = 1 /\ runs[1].transformer = "TransformTypeof"
    /\ src = Scenario("StrictEquality")
    /\ HookedAgain(nodes[nodes[root.id].expression.id].left.id)

-----------------------------------------------------------------------------
(* The parser, statement by statement: parser.rs. Each allocation and each
   write of a parent tag is one step; `stack` holds the parser's own calls,
   one per source expression under construction, with the operands built so
   far in `kids`. *)

\* what the caller holds before parse has returned
NoStatement == [variant |-> "None", id |-> 0]

ParseFrame(fn, e) == [fn |-> fn, arg |-> e, pc |-> "enter", kids |-> <<>>]

\* the expression just built goes back to the call that asked for it
Yield(expr) ==
    stack' = [SubSeq(stack, 1, depth - 1) EXCEPT ![depth - 1].kids = Append(@, expr)]

ParserInit ==
    /\ src \in Sources
    /\ nodes = <<>>
    /\ root = NoStatement
    /\ stack = <<ParseFrame("parse", src)>>
    /\ borrows = {}
    /\ tokens = 0
    /\ transformer = "none"
    /\ runs = <<>>
    /\ counts = NoCounts
    /\ log = <<>>
    /\ output = {}
    /\ access = NoAccess
    /\ thread = 1
    /\ parked = NoThread

\* Box(alloc.alloc(IdentifierReference { name, parent: ExpressionParent::None }))
parse_identifier ==
    /\ Running("parse_expression", "enter") /\ Top.arg.k = "Identifier"
    /\ nodes' = alloc(nodes, [kind |-> "IdentifierReference", name |-> Top.arg.name,
                              parent |-> ParentNone])
    /\ Yield(Expression("Identifier", Len(nodes')))
    /\ UNCHANGED <<src, root, borrows, tokens, transformer, runs, counts, log, output>>
    /\ UNCHANGED <<access, thread, parked>>

\* Box(alloc.alloc(StringLiteral { value, parent: ExpressionParent::None }))
parse_string_literal ==
    /\ Running("parse_expression", "enter") /\ Top.arg.k = "StringLiteral"
    /\ nodes' = alloc(nodes, [kind |-> "StringLiteral", value |-> Top.arg.value,
                              parent |-> ParentNone])
    /\ Yield(Expression("StringLiteral", Len(nodes')))
    /\ UNCHANGED <<src, root, borrows, tokens, transformer, runs, counts, log, output>>
    /\ UNCHANGED <<access, thread, parked>>

\* the argument first; then the unary expression, its parent None; then
\* `id.parent = ExpressionParent::UnaryExpression(unary_expr_ptr)`
parse_unary_expression ==
    /\ depth > 0 /\ Top.fn = "parse_expression" /\ Top.arg.k = "UnaryExpression"
    /\ \/ /\ Top.pc = "enter"
          /\ stack' = Append([stack EXCEPT ![depth].pc = "alloc"],
                             ParseFrame("parse_expression", Top.arg.arg))
          /\ UNCHANGED nodes
       \/ /\ Top.pc = "alloc"
          /\ nodes' = alloc(nodes, [kind |-> "UnaryExpression", operator |-> Top.arg.op,
                                    argument |-> Top.kids[1], parent |-> ParentNone])
          /\ Goto("patch")
       \/ /\ Top.pc = "patch"
          /\ nodes' = set_parent(nodes, Top.kids[1],
                                 ExpressionParent("UnaryExpression", Len(nodes)))
          /\ Yield(Expression("UnaryExpression", Len(nodes)))
    /\ UNCHANGED <<src, root, borrows, tokens, transformer, runs, counts, log, output>>
    /\ UNCHANGED <<access, thread, parked>>

\* the operands first, left then right; then the binary expression, its
\* parent None; then the two tags, BinaryExpressionLeft and BinaryExpressionRight
parse_binary_expression ==
    /\ depth > 0 /\ Top.fn = "parse_expression" /\ Top.arg.k = "BinaryExpression"
    /\ \/ /\ Top.pc = "enter"
          /\ stack' = Append([stack EXCEPT ![depth].pc = "right"],
                             ParseFrame("parse_expression", Top.arg.l))
          /\ UNCHANGED nodes
       \/ /\ Top.pc = "right"
          /\ stack' = Append([stack EXCEPT ![depth].pc = "alloc"],
                             ParseFrame("parse_expression", Top.arg.r))
          /\ UNCHANGED nodes
       \/ /\ Top.pc = "alloc"
          /\ nodes' = alloc(nodes, [kind |-> "BinaryExpression", operator |-> Top.arg.op,
                                    left |-> Top.kids[1], right |-> Top.kids[2],
                                    parent |-> ParentNone])
          /\ Goto("patch_left")
       \/ /\ Top.pc = "patch_left"
          /\ nodes' = set_parent(nodes, Top.kids[1],
                                 ExpressionParent("BinaryExpressionLeft", Len(nodes)))
          /\ Goto("patch_right")
       \/ /\ Top.pc = "patch_right"
          /\ nodes' = set_parent(nodes, Top.kids[2],
                                 ExpressionParent("BinaryExpressionRight", Len(nodes)))
          /\ Yield(Expression("BinaryExpression", Len(nodes)))
    /\ UNCHANGED <<src, root, borrows, tokens, transformer, runs, counts, log, output>>
    /\ UNCHANGED <<access, thread, parked>>

\* parse: the expression; the expression statement and the expression's tag;
\* the program and the statement's tag; the caller gets the tree
parse_program ==
    /\ depth > 0 /\ Top.fn = "parse"
    /\ \/ /\ Top.pc = "enter"
          /\ stack' = Append([stack EXCEPT ![depth].pc = "statement"],
                             ParseFrame("parse_expression", Top.arg))
          /\ UNCHANGED <<nodes, root>>
       \/ /\ Top.pc = "statement"
          /\ nodes' = alloc(nodes, [kind |-> "ExpressionStatement",
                                    expression |-> Top.kids[1], parent |-> ParentNone])
          /\ Goto("patch")
          /\ UNCHANGED root
       \/ /\ Top.pc = "patch"
          /\ nodes' = set_parent(nodes, Top.kids[1],
                                 ExpressionParent("ExpressionStatement", Len(nodes)))
          /\ stack' = [stack EXCEPT ![depth].pc = "program",
                                    ![depth].kids = <<Statement(Len(nodes))>>]
          /\ UNCHANGED root
       \/ /\ Top.pc = "program"
          /\ nodes' = alloc(nodes, [kind |-> "Program", body |-> Top.kids])
          /\ Goto("patch_statement")
          /\ UNCHANGED root
       \/ /\ Top.pc = "patch_statement"
          /\ nodes' = set_parent(nodes, Top.kids[1], ExpressionParent("Program", Len(nodes)))
          /\ root' = Top.kids[1]
          /\ stack' = <<>>
    /\ UNCHANGED <<src, borrows, tokens, transformer, runs, counts, log, output>>
    /\ UNCHANGED <<access, thread, parked>>

ParserNext ==
    \/ parse_identifier
    \/ parse_string_literal
    \/ parse_unary_expression
    \/ parse_binary_expression
    \/ parse_program

ParserSpec == ParserInit /\ [][ParserNext]_vars

\* parse has returned
Returned == stack = <<>> /\ root # NoStatement

\* the nodes that carry a parent tag: all but the root, the Program
Tagged(ns) == {id \in 1..Len(ns) : ns[id].kind # "Program"}

\* the nodes whose parent tag is still the placeholder
Unpatched(ns) == {id \in Tagged(ns) : ns[id].parent = ParentNone}

\* C22: the parser builds the tree in dependency order and patches it
\* completely: in every state of the construction each child field refers to
\* a node allocated before the node that holds the field; a node enters the
\* arena with the placeholder tag, and a step that writes a parent tag writes
\* it on a node that a field of an already allocated parent refers to; when
\* parse returns no node but the root is without a tag, and the tree is the
\* one the caller goes on to print and transform.
C22_DependencyOrder ==
    /\ [](\A p \in 1..Len(nodes) : \A c \in ChildFields(nodes[p]) : c.id < p)
    /\ [][/\ Len(nodes') >= Len(nodes)
          /\ \A id \in Tagged(nodes') :
                 IF id \in 1..Len(nodes)
                 THEN nodes'[id].parent # nodes[id].parent =>
                          /\ nodes[id].parent = ParentNone
                          /\ TagNames(nodes, nodes'[id].parent, id)
                 ELSE nodes'[id].parent = ParentNone]_vars
    /\ [](Returned => /\ Unpatched(nodes) = {}
                      /\ ProgramNodes(nodes) = {Len(nodes)}
                      /\ nodes = Parsed /\ root = parse(src).stmt)

\* the tree of `(typeof foo === 'object') == !bar`, returned: nine nodes,
\* every tag written
C22_Witness ==
    /\ Returned
    /\ src = Bin("Equality", Scenario("StrictEquality"), Un("LogicalNot", Id("bar")))
    /\ Len(nodes) = Cardinality(Tagged(nodes)) + 1
    /\ ParentConsistent(nodes)
    /\ nodes[root.id].parent.slot = "Program"

-----------------------------------------------------------------------------
\* how many times the hook of node id's kind has been invoked in the running
\* / last traversal (visit_statement and visit_expression only dispatch)
Invocations(id) ==
    Cardinality({i \in 1..Len(log) :
                    log[i].id = id /\ log[i].hook \notin {"visit_statement", "visit_expression"}})

\* the typeof expressions whose hook was invoked and went on to the swap: the
\* parent is a binary expression with an equality operator and a right operand
Swapped ==
    {id \in Hooked :
        /\ LogEntry("visit_unary_expression", id) \in Range(log)
        /\ ~not_typeof(nodes, id)
        /\ as_binary(nodes, nodes[id].parent.node)
        /\ is_equality(nodes, nodes[id].parent.node)
        /\ right_is_expr(nodes, nodes[id].parent.node)}

\* C23: in a TransformTypeof run that swaps a binary expression's operands
\* while the walk of that binary expression is in progress (and prunes
\* nothing), no node's hook is invoked twice, and when the run has returned
\* the hook of every node of the tree has been invoked exactly once.
C23_EveryHookOnce ==
    (transformer = "TransformTypeof" /\ Swapped # {} /\ Pruned = {}) =>
        /\ \A id \in Reachable(nodes, root) : Invocations(id) <= 1
        /\ Idle => \A id \in Reachable(nodes, root) : Invocations(id) = 1

-----------------------------------------------------------------------------
\* node b is `typeof x OP 'lit'`: a binary expression with an equality
\* operator, a typeof expression as left operand, a string literal as right
Matches(ns, b) ==
    /\ ns[b].kind = "BinaryExpression"
    /\ is_equality(ns, b)
    /\ ns[b].left.variant = "UnaryExpression" /\ ~not_typeof(ns, ns[b].left.id)
    /\ ns[b].right.variant = "StringLiteral"

\* C24: after one run of TransformTypeof no binary expression of the tree is
\* still `typeof x OP 'lit'`, those inside the argument of a non-typeof unary
\* expression (`!(typeof x === 'a')`) included.
C24_NoMatchLeft ==
    (Idle /\ Len(runs) = 1 /\ runs[1].transformer = "TransformTypeof") =>
        \A b \in Reachable(nodes, root) : ~Matches(nodes, b)

====
